---- MODULE Spec2Model ----
(***************************************************************************)
(* The batch edit / analyze workflow of the photo editor: the App          *)
(* component's state (src/unnamed/part_001), its handlers, the asynchronous*)
(* runs of handleGenerate, the file encodings in flight, the localStorage  *)
(* slot and the two remote operations of src/services/geminiService.ts.    *)
(*                                                                         *)
(* One action is one uninterrupted piece of JavaScript: a handler up to    *)
(* its return or its next await, or the continuation that runs when an     *)
(* awaited promise settles.                                                *)
(***************************************************************************)
EXTENDS Integers, Sequences, FiniteSets, TLC

\* ---------------------------------------------------------------- bounds
\* most image files the model holds at a time, selected or being encoded
\* (the code enforces no upper bound)
MaxImages == 2
\* most file encodings (handleFileChange awaiting fileListToBase64) in flight
MaxPending == 1

\* ---------------------------------------------------------------- values
Modes == {"edit", "analyze"}

\* JavaScript null of `error` and of `analysisResult`
Null == "<null>"
\* JavaScript undefined of the optional property EditedImageResult.error
Undefined == "<undefined>"
\* JavaScript null of EditedImageResult.editedUrl; a data URL
\* `data:<mime>;base64,<payload>` is the pair <<mime, payload>>
NullUrl == <<>>

DataUrl(mime, payload) == <<mime, payload>>
\* image.url.split(',')[1]
Base64Of(url) == url[2]

\* the files the user can pick: name, MIME type, base64 of the content
Files ==
    { [name |-> "a.png", type |-> "image/png", content |-> "AAAA"],
      [name |-> "b.jpg", type |-> "image/jpeg", content |-> "BBBB"] }

\* reader.readAsDataURL(file) resolved: { url: reader.result, file }
ReadAsImageFile(f) ==
    [url |-> DataUrl(f.type, f.content), file |-> [name |-> f.name, type |-> f.type]]

\* fileListToBase64: Promise.all over the files, in the files' order
FileListToBase64(files) == [i \in 1..Len(files) |-> ReadAsImageFile(files[i])]

\* the texts the prompt field can hold
Prompts == {"", "Remove the background"}

PreconditionMessage == "Please upload an image and provide a prompt."
EditCommError == "Failed to communicate with the AI model. Please check your API key and network connection."
AnalyzeCommError == "Failed to communicate with the AI model for analysis. Please check your API key and network connection."
UnknownEditError == "An unknown error occurred."
UnknownAnalyzeError == "An unknown error occurred during analysis."

\* progress: null, or { current, total }
NullProgress == [set |-> FALSE, current |-> 0, total |-> 0]
Progress(c, t) == [set |-> TRUE, current |-> c, total |-> t]

\* ------------------------------------------------- the remote operations
\* What ai.models.generateContent can do for an edit request: answer with an
\* image part, answer without one, or throw.
EditApiOutcomes ==
    { [kind |-> "image", data |-> "GGGG"],
      [kind |-> "noImage", data |-> ""],
      [kind |-> "throw", data |-> ""] }

\* What it can do for an analyze request: answer with text, or throw.
AnalyzeApiOutcomes ==
    { [kind |-> "text", data |-> "A red bicycle."],
      [kind |-> "throw", data |-> ""] }

Resolved(v) == [ok |-> TRUE, value |-> v, isError |-> FALSE]
\* a rejection with `new Error(message)`
RejectedError(m) == [ok |-> FALSE, value |-> m, isError |-> TRUE]

\* editImageWithPrompt: the first inline image part, else the inner throw;
\* every throw is caught and rethrown as the one communication error
EditImageWithPrompt(api) ==
    IF api.kind = "image" THEN Resolved(api.data) ELSE RejectedError(EditCommError)

\* analyzeImageWithPrompt: response.text, or the communication error
AnalyzeImageWithPrompt(api) ==
    IF api.kind = "text" THEN Resolved(api.data) ELSE RejectedError(AnalyzeCommError)

\* err instanceof Error ? err.message : fallback
ErrorMessage(settled, fallback) ==
    IF settled.isError THEN settled.value ELSE fallback

\* mode === 'edit' ? editImageWithPrompt : analyzeImageWithPrompt
RemoteOp(m) == IF m = "edit" THEN "editImageWithPrompt" ELSE "analyzeImageWithPrompt"

\* the request handed to the remote operation for one image
RemoteCall(op, image, promptText) ==
    [op |-> op, data |-> Base64Of(image.url), mimeType |-> image.file.type,
     prompt |-> promptText]

\* --------------------------------------------------------- the store slot
\* localStorage under LOCAL_STORAGE_KEY: absent, or a string.  A string is
\* the empty string, text JSON.parse throws on, or the text of a JSON value.
JsonNull == [type |-> "null", items |-> <<>>]
JsonObject == [type |-> "object", items |-> <<>>]
JsonArray(items) == [type |-> "array", items |-> items]

StoreAbsent == [kind |-> "absent", json |-> JsonNull]
StoreEmptyString == [kind |-> "empty", json |-> JsonNull]
StoreGarbage == [kind |-> "garbage", json |-> JsonNull]
StoreJson(v) == [kind |-> "json", json |-> v]

\* a serialisation that keeps the urls only
JsonStringify_DropsError(results) ==
    StoreJson(JsonArray([i \in 1..Len(results) |->
        [originalUrl |-> results[i].originalUrl,
         editedUrl |-> results[i].editedUrl,
         error |-> Undefined]]))

\* JSON.stringify(results): an array of objects; null stays null, and an
\* undefined property is left out, which reads back as undefined
JsonStringify(results) ==
    StoreJson(JsonArray([i \in 1..Len(results) |->
        [originalUrl |-> results[i].originalUrl,
         editedUrl |-> results[i].editedUrl,
         error |-> results[i].error]]))

\* localStorage.getItem(KEY) is truthy
IsTruthy(s) == s.kind \in {"garbage", "json"}
\* JSON.parse(savedData) throws
ParseThrows(s) == s.kind # "json"
\* Array.isArray(JSON.parse(savedData))
IsArray(s) == s.kind = "json" /\ s.json.type = "array"

\* the edit outcomes handleGenerate builds
SuccessResult(image, generated) ==
    [originalUrl |-> image.url,
     editedUrl |-> DataUrl(image.file.type, generated),
     error |-> Undefined]

FailureResult(image, settled) ==
    [originalUrl |-> image.url,
     editedUrl |-> NullUrl,
     error |-> ErrorMessage(settled, UnknownEditError)]

\* what the slot can hold when the page is opened: nothing, what an earlier
\* session wrote, or anything else written under the key
SampleImage == ReadAsImageFile(CHOOSE f \in Files : f.name = "a.png")
InitialStores ==
    { StoreAbsent, StoreEmptyString, StoreGarbage,
      StoreJson(JsonNull), StoreJson(JsonObject),
      StoreJson(JsonArray(<<>>)),
      JsonStringify(<<SuccessResult(SampleImage, "GGGG")>>),
      JsonStringify(<<FailureResult(SampleImage, RejectedError(EditCommError))>>),
      StoreJson(JsonArray(<<[originalUrl |-> SampleImage.url,
                             editedUrl |-> NullUrl, error |-> Undefined]>>)),
      StoreJson(JsonArray(<<[originalUrl |-> SampleImage.url,
                             editedUrl |-> DataUrl("image/png", "GGGG"),
                             error |-> EditCommError]>>)) }

RemoveAt(s, k) == [i \in 1..(Len(s) - 1) |-> IF i < k THEN s[i] ELSE s[i + 1]]


\* ----------------------------------------------------------------- state
VARIABLES
    mounted,         \* the mount effect (load of the previous session) has run
    mode,            \* useState<Mode>('edit')
    originalImages,  \* useState<ImageFile[]>([])
    editedImages,    \* useState<EditedImageResult[]>([])
    analysisResult,  \* useState<string | null>(null)
    prompt,          \* useState<string>('')
    isLoading,       \* useState<boolean>(false)
    error,           \* useState<string | null>(null)
    progress,        \* useState<{current, total} | null>(null)
    store,           \* localStorage[LOCAL_STORAGE_KEY]
    runs,            \* invocations of handleGenerate suspended at an await
    pending          \* invocations of handleFileChange suspended at its await

vars ==
    <<mounted, mode, originalImages, editedImages, analysisResult, prompt,
      isLoading, error, progress, store, runs, pending>>

Init ==
    /\ mounted = FALSE
    /\ mode = "edit"
    /\ originalImages = <<>>
    /\ editedImages = <<>>
    /\ analysisResult = Null
    /\ prompt = ""
    /\ isLoading = FALSE
    /\ error = Null
    /\ progress = NullProgress
    /\ store \in InitialStores
    /\ runs = <<>>
    /\ pending = <<>>

\* ----------------------------------------------------- the mount effect
\* try { savedData = getItem; if (savedData) { parsed = JSON.parse(savedData);
\*   if (Array.isArray(parsed)) { setMode('edit'); setEditedImages(parsed) } } }
\* catch { removeItem }
LoadThrows(s) == IsTruthy(s) /\ ParseThrows(s)
LoadRestores(s) == IsTruthy(s) /\ ~ParseThrows(s) /\ IsArray(s)
StoreAfterLoad(s) == IF LoadThrows(s) THEN StoreAbsent ELSE s

LoadSession ==
    /\ ~mounted
    /\ mounted' = TRUE
    /\ IF LoadRestores(store)
         THEN /\ mode' = "edit"
              /\ editedImages' = store.json.items
         ELSE UNCHANGED <<mode, editedImages>>
    /\ store' = StoreAfterLoad(store)
    /\ UNCHANGED <<originalImages, analysisResult, prompt, isLoading, error,
                   progress, runs, pending>>

\* ------------------------------------------------------ handleModeChange
\* the switch to analyze without its removeItem
StoreAfterModeChange_Keeps(newMode, s) == s

StoreAfterModeChange(newMode, s) == IF newMode = "analyze" THEN StoreAbsent ELSE s

\* handleModeChange without its setError(null)
HandleModeChange_KeepsError(newMode) ==
    /\ mounted
    /\ mode' = newMode
    /\ originalImages' = <<>>
    /\ editedImages' = <<>>
    /\ analysisResult' = Null
    /\ prompt' = ""
    /\ progress' = NullProgress
    /\ store' = StoreAfterModeChange(newMode, store)
    /\ UNCHANGED <<mounted, isLoading, error, runs, pending>>

HandleModeChange(newMode) ==
    /\ mounted
    /\ mode' = newMode
    /\ originalImages' = <<>>
    /\ editedImages' = <<>>
    /\ analysisResult' = Null
    /\ prompt' = ""
    /\ error' = Null
    /\ progress' = NullProgress
    /\ store' = StoreAfterModeChange(newMode, store)
    /\ UNCHANGED <<mounted, isLoading, runs, pending>>

\* ------------------------------------- handleFileChange, handleImagesSelect
\* event.target.files of one file dialog: a non-empty list of different files
RECURSIVE SeqsUpTo(_, _)
SeqsUpTo(S, n) ==
    IF n = 0 THEN {<<>>}
    ELSE LET shorter == SeqsUpTo(S, n - 1)
         IN shorter \cup {Append(s, x) : s \in {t \in shorter : Len(t) = n - 1}, x \in S}

Picks ==
    {s \in SeqsUpTo(Files, Cardinality(Files)) :
        Len(s) > 0 /\ \A i, j \in DOMAIN s : i # j => s[i] # s[j]}

\* the files of the encodings in flight
RECURSIVE FilesIn(_)
FilesIn(ps) == IF ps = <<>> THEN 0 ELSE Len(Head(ps).files) + FilesIn(Tail(ps))

\* The dialog opens from the upload button (no image selected) or from
\* "Add more" (not in single-image mode); the input is `multiple` only when
\* not in single-image mode.  The handler keeps the onImagesSelect of its
\* render, whose useCallback closes over that render's mode.
HandleFileChange(files) ==
    /\ mounted
    /\ Len(pending) < MaxPending
    /\ Len(originalImages) = 0 \/ mode # "analyze"
    /\ mode = "analyze" => Len(files) = 1
    /\ Len(originalImages) + FilesIn(pending) + Len(files) <= MaxImages
    /\ pending' = Append(pending, [mode |-> mode, files |-> files])
    /\ UNCHANGED <<mounted, mode, originalImages, editedImages, analysisResult,
                   prompt, isLoading, error, progress, store, runs>>

\* mode === 'analyze' ? newFiles.slice(0, 1) : [...prev, ...newFiles]
SelectionAfterSelect(closureMode, prev, newFiles) ==
    IF closureMode = "analyze" THEN SubSeq(newFiles, 1, 1) ELSE prev \o newFiles

\* fileListToBase64 resolves and handleImagesSelect runs
HandleImagesSelect(k) ==
    /\ k \in DOMAIN pending
    /\ LET p == pending[k]
           selected == SelectionAfterSelect(p.mode, originalImages,
                                            FileListToBase64(p.files))
       IN /\ Len(selected) <= MaxImages
          /\ originalImages' = selected
    /\ editedImages' = <<>>
    /\ analysisResult' = Null
    /\ error' = Null
    /\ store' = StoreAbsent
    /\ pending' = RemoveAt(pending, k)
    /\ UNCHANGED <<mounted, mode, prompt, isLoading, progress, runs>>

\* a FileReader fails: Promise.all rejects and onImagesSelect is never called
EncodeFails(k) ==
    /\ k \in DOMAIN pending
    /\ pending' = RemoveAt(pending, k)
    /\ UNCHANGED <<mounted, mode, originalImages, editedImages, analysisResult,
                   prompt, isLoading, error, progress, store, runs>>

\* ------------------------------------ handleRemoveImage, handleClearImages
\* prev.filter((_, index) => index !== indexToRemove)
HandleRemoveImage(indexToRemove) ==
    /\ mounted
    /\ indexToRemove \in DOMAIN originalImages
    /\ originalImages' = RemoveAt(originalImages, indexToRemove)
    /\ editedImages' = <<>>
    /\ analysisResult' = Null
    /\ store' = StoreAbsent
    /\ UNCHANGED <<mounted, mode, prompt, isLoading, error, progress, runs,
                   pending>>

\* the Clear button is rendered when the selection is not empty
HandleClearImages ==
    /\ mounted
    /\ Len(originalImages) > 0
    /\ originalImages' = <<>>
    /\ editedImages' = <<>>
    /\ analysisResult' = Null
    /\ store' = StoreAbsent
    /\ UNCHANGED <<mounted, mode, prompt, isLoading, error, progress, runs,
                   pending>>

\* --------------------------------------------- the prompt, the error banner
\* the textarea and the example buttons are disabled with no image selected
SetPrompt(p) ==
    /\ mounted
    /\ Len(originalImages) > 0
    /\ prompt' = p
    /\ UNCHANGED <<mounted, mode, originalImages, editedImages, analysisResult,
                   isLoading, error, progress, store, runs, pending>>

\* the banner's close button: setError(null)
DismissError ==
    /\ error # Null
    /\ error' = Null
    /\ UNCHANGED <<mounted, mode, originalImages, editedImages, analysisResult,
                   prompt, isLoading, progress, store, runs, pending>>

\* --------------------------------------------------------- handleGenerate
\* a Generate button that stays enabled during a run
GenerateClickable_Always == TRUE

\* The Generate button is disabled while isLoading.
GenerateClickable == ~isLoading

\* the check of the selection alone: `|| !prompt` left out
PreconditionFails_IgnoresPrompt == Len(originalImages) = 0

\* The handler itself checks the selection and the prompt and returns with
\* the banner set.
PreconditionFails == Len(originalImages) = 0 \/ prompt = ""

HandleGeneratePrecondition ==
    /\ mounted
    /\ GenerateClickable
    /\ PreconditionFails
    /\ error' = PreconditionMessage
    /\ UNCHANGED <<mounted, mode, originalImages, editedImages, analysisResult,
                   prompt, isLoading, progress, store, runs, pending>>

\* the invocation's closure and its place in the loop: the call for
\* images[i] is in flight, results holds the outcomes of images[1..i-1] and
\* calls the requests the invocation has made so far
NewRun == [mode |-> mode, images |-> originalImages, prompt |-> prompt,
           i |-> 1, results |-> <<>>,
           calls |-> <<RemoteCall(RemoteOp(mode), originalImages[1], prompt)>>]

\* up to the first await: the state resets and the first remote call
HandleGenerateStart ==
    /\ mounted
    /\ GenerateClickable
    /\ ~PreconditionFails
    /\ isLoading' = TRUE
    /\ error' = Null
    /\ editedImages' = <<>>
    /\ analysisResult' = Null
    /\ progress' = Progress(0, Len(originalImages))
    /\ runs' = Append(runs, NewRun)
    /\ UNCHANGED <<mounted, mode, originalImages, prompt, store, pending>>

\* a failed call recorded nowhere: the catch block without its push
ResultsAfter_DropsFailure(results, image, settled) ==
    IF settled.ok THEN Append(results, SuccessResult(image, settled.value))
                  ELSE results

\* try { results.push(success) } catch { results.push(failure) }
ResultsAfter(results, image, settled) ==
    Append(results,
           IF settled.ok THEN SuccessResult(image, settled.value)
                         ELSE FailureResult(image, settled))

\* the loop index published as it is: current: i instead of i + 1
ProgressAfter_OffByOne(run) == Progress(run.i - 1, Len(run.images))

\* setProgress({ current: i + 1, total }) of the finally block (i from 0)
ProgressAfter(run) == Progress(run.i, Len(run.images))

\* if (results.length > 0) localStorage.setItem(...)
WritesStore(results) == Len(results) > 0

\* a throw of setItem that escapes: setIsLoading(false) is never reached
LoadingAfterWrite_Uncaught(threw) == threw

\* try { setItem } catch { console.error }, then setIsLoading(false)
LoadingAfterWrite(threw) == FALSE

\* The call for image i of an edit run settles: the outcome is pushed, the
\* progress and the outcomes are published, and either the next call is
\* made or the loop ends, the snapshot is written (setItem may throw, which
\* is caught and logged) and isLoading is reset.
EditSettles(k, api, quotaOk) ==
    /\ k \in DOMAIN runs
    /\ runs[k].mode = "edit"
    /\ LET run == runs[k]
           results == ResultsAfter(run.results, run.images[run.i],
                                   EditImageWithPrompt(api))
       IN /\ progress' = ProgressAfter(run)
          /\ editedImages' = results
          /\ IF run.i < Len(run.images)
               THEN /\ quotaOk
                    /\ runs' = [runs EXCEPT
                           ![k].i = run.i + 1,
                           ![k].results = results,
                           ![k].calls = Append(run.calls,
                               RemoteCall(RemoteOp("edit"), run.images[run.i + 1],
                                          run.prompt))]
                    /\ UNCHANGED <<store, isLoading>>
               ELSE /\ runs' = RemoveAt(runs, k)
                    /\ IF WritesStore(results) /\ quotaOk
                         THEN store' = JsonStringify(results)
                         ELSE /\ ~WritesStore(results) => quotaOk
                              /\ UNCHANGED store
                    /\ isLoading' = LoadingAfterWrite(WritesStore(results) /\ ~quotaOk)
    /\ UNCHANGED <<mounted, mode, originalImages, analysisResult, prompt, error,
                   pending>>

\* the analyze call settles
AnalysisAfter(settled, before) == IF settled.ok THEN settled.value ELSE before
\* a catch block that does not call setError
ErrorAfterAnalyze_Swallows(settled, before) == before

ErrorAfterAnalyze(settled, before) ==
    IF settled.ok THEN before ELSE ErrorMessage(settled, UnknownAnalyzeError)

AnalyzeSettles(k, api) ==
    /\ k \in DOMAIN runs
    /\ runs[k].mode = "analyze"
    /\ LET settled == AnalyzeImageWithPrompt(api)
       IN /\ analysisResult' = AnalysisAfter(settled, analysisResult)
          /\ error' = ErrorAfterAnalyze(settled, error)
    /\ isLoading' = FALSE
    /\ runs' = RemoveAt(runs, k)
    /\ UNCHANGED <<mounted, mode, originalImages, editedImages, prompt, progress,
                   store, pending>>

\* ------------------------------------------------------- the specification
Next ==
    \/ LoadSession
    \/ \E m \in Modes : HandleModeChange(m)
    \/ \E files \in Picks : HandleFileChange(files)
    \/ \E k \in 1..MaxPending : HandleImagesSelect(k)
    \/ \E k \in 1..MaxPending : EncodeFails(k)
    \/ \E i \in 1..MaxImages : HandleRemoveImage(i)
    \/ HandleClearImages
    \/ \E p \in Prompts : SetPrompt(p)
    \/ DismissError
    \/ HandleGeneratePrecondition
    \/ HandleGenerateStart
    \/ \E k \in DOMAIN runs, api \in EditApiOutcomes, quotaOk \in BOOLEAN :
           EditSettles(k, api, quotaOk)
    \/ \E k \in DOMAIN runs, api \in AnalyzeApiOutcomes : AnalyzeSettles(k, api)

Spec == Init /\ [][Next]_vars

\* ------------------------------------------------------------ properties
\* the steps of the operations
SelectStep == \E k \in DOMAIN pending : HandleImagesSelect(k)
RemoveStep == \E i \in DOMAIN originalImages : HandleRemoveImage(i)
GenerateStep == HandleGeneratePrecondition \/ HandleGenerateStart

\* run k returns in this step
RunFinishes(k) == k \in DOMAIN runs /\ runs' = RemoveAt(runs, k)
EditRunFinishes(k) == RunFinishes(k) /\ runs[k].mode = "edit"
\* the last call of edit run k settles and the write succeeds (ok) or throws
LastCallSettles(k, ok) ==
    /\ runs[k].mode = "edit"
    /\ runs[k].i = Len(runs[k].images)
    /\ \E api \in EditApiOutcomes : EditSettles(k, api, ok)

EditedPresent(o) == o.editedUrl # NullUrl
ErrorPresent(o) == o.error # Undefined

\* C1: when an edit run over n >= 1 images finishes, the published outcome
\* sequence has length n and outcome i carries the url of the i-th image of
\* the selection the run was started with, whichever calls failed.
C1_OutcomesMatchInputs ==
    [][\A k \in DOMAIN runs :
         EditRunFinishes(k) =>
           /\ Len(editedImages') = Len(runs[k].images)
           /\ \A i \in DOMAIN runs[k].images :
                editedImages'[i].originalUrl = runs[k].images[i].url]_vars

\* the outcomes of a finished run over two different images are on display:
\* the first call failed and the second succeeded
C1_Witness ==
    /\ runs = <<>> /\ ~isLoading
    /\ progress = Progress(2, 2)
    /\ Len(editedImages) = 2
    /\ editedImages[1].originalUrl # editedImages[2].originalUrl
    /\ ErrorPresent(editedImages[1])
    /\ EditedPresent(editedImages[2])

\* C2: every outcome in the edit outcome sequence has exactly one of edited
\* data and error message, outcomes restored by the load at startup included.
C2_ExactlyOneOfEditedAndError ==
    \A i \in DOMAIN editedImages :
        EditedPresent(editedImages[i]) # ErrorPresent(editedImages[i])

\* C3 as amended: over an edit-mode run the completed count never decreases
\* and stays within 0..total; while the run is in flight it is below the
\* total, and in the state the run finishes in it equals the total.
ProgressInRange(p) == p.set => 0 <= p.current /\ p.current <= p.total
ProgressMonotone ==
    (progress.set /\ progress'.set /\ ~HandleGenerateStart)
        => progress'.current >= progress.current
ProgressBelowTotalWhileRunning ==
    (Len(runs') > 0 /\ progress'.set) => progress'.current < progress'.total

C3_EditProgress ==
    [][/\ ProgressInRange(progress')
       /\ ProgressMonotone
       /\ ProgressBelowTotalWhileRunning
       /\ \A k \in DOMAIN runs :
            EditRunFinishes(k) =>
                progress'.set /\ progress'.current = progress'.total]_vars

\* C3 as stated: the same of every run of generate, an analyze run included.
C3_AnyRunProgress ==
    [][/\ ProgressInRange(progress')
       /\ ProgressMonotone
       /\ ProgressBelowTotalWhileRunning
       /\ \A k \in DOMAIN runs :
            RunFinishes(k) =>
                progress'.set /\ progress'.current = progress'.total]_vars

\* an edit run over two images has finished at 2/2
C3_Witness ==
    /\ runs = <<>> /\ ~isLoading
    /\ mode = "edit"
    /\ Len(editedImages) = 2
    /\ progress = Progress(2, 2)

\* C4: every write to the store happens with the current mode edit and a
\* non-empty outcome sequence written.
C4_WritesOnlyInEditMode ==
    [][\A k \in DOMAIN runs :
         LastCallSettles(k, TRUE) =>
           /\ mode' = "edit"
           /\ IsArray(store')
           /\ Len(store'.json.items) > 0]_vars

\* C5 as amended: right after select-images, remove-image, clear-images and
\* the switch to analyze mode the key is absent; the switch to edit mode
\* leaves the store as it was.
C5_KeyAbsentExceptSwitchToEdit ==
    [][/\ (SelectStep \/ RemoveStep \/ HandleClearImages
              \/ HandleModeChange("analyze")) => store' = StoreAbsent
       /\ HandleModeChange("edit") => store' = store]_vars

\* C5 as stated, of an operation in a session in which generate has run (the
\* store then holds only what the session wrote): the key is absent after
\* it, after the switch to edit mode too.
C5_KeyAbsentAfterEach ==
    [][(progress.set /\ (SelectStep \/ RemoveStep \/ HandleClearImages
                            \/ \E m \in Modes : HandleModeChange(m)))
         => store' = StoreAbsent]_vars

\* after a run over two images had finished, one image left the selection
\* and the key is absent
C5_Witness ==
    /\ runs = <<>> /\ ~isLoading
    /\ progress = Progress(2, 2)
    /\ Len(originalImages) = 1
    /\ editedImages = <<>>
    /\ store = StoreAbsent

\* C6: after the load at startup, either the stored value was an array, the
\* outcome sequence is that array and the mode is edit, or the outcome
\* sequence is empty, the key is absent and no error banner is set.
C6_LoadRestoresOrDeletes ==
    [][LoadSession =>
         \/ /\ IsArray(store)
            /\ editedImages' = store.json.items
            /\ mode' = "edit"
         \/ /\ ~IsArray(store)
            /\ editedImages' = <<>>
            /\ store' = StoreAbsent
            /\ error' = Null]_vars

\* C7: right after switch-mode(m) the mode is m, the selection and the
\* outcome sequence are empty, the analysis is absent, the prompt is empty
\* and no error is active.
C7_ModeChangeResets ==
    [][\A m \in Modes :
         HandleModeChange(m) =>
           /\ mode' = m
           /\ originalImages' = <<>>
           /\ editedImages' = <<>>
           /\ analysisResult' = Null
           /\ prompt' = ""
           /\ error' = Null]_vars

\* the mode was switched to analyze while the second call of an edit run was
\* in flight: the first outcome, published before, is gone
C7_Witness ==
    /\ mode = "analyze"
    /\ Len(runs) = 1
    /\ runs[1].mode = "edit"
    /\ runs[1].i = 2
    /\ originalImages = <<>>
    /\ editedImages = <<>>
    /\ prompt = ""
    /\ error = Null

\* C8: generate invoked with an empty selection or an empty prompt makes no
\* remote call, sets the banner to the precondition message and leaves the
\* run state idle and the outcomes, the analysis, the progress and the
\* store unchanged.
C8_PreconditionFailure ==
    [][(GenerateStep /\ (Len(originalImages) = 0 \/ prompt = ""))
         => /\ error' = PreconditionMessage
            /\ ~isLoading /\ ~isLoading'
            /\ UNCHANGED <<runs, editedImages, analysisResult, progress, store>>]_vars

\* generate was invoked with images selected, an empty prompt and the
\* snapshot of an earlier run on display
C8_Witness ==
    /\ error = PreconditionMessage
    /\ Len(originalImages) > 0
    /\ prompt = ""
    /\ ~isLoading /\ runs = <<>>
    /\ Len(editedImages) > 0
    /\ IsArray(store)

\* C9: when the write at the end of an edit run succeeds, the store holds the
\* run's outcome sequence; when it throws, the run has still finished with
\* all its outcomes published, not loading and no error banner.
C9_SnapshotOrSwallowedFailure ==
    [][\A k \in DOMAIN runs :
         /\ LastCallSettles(k, TRUE) =>
              /\ IsArray(store')
              /\ store'.json.items = editedImages'
              /\ Len(editedImages') = Len(runs[k].images)
         /\ LastCallSettles(k, FALSE) =>
              /\ Len(editedImages') = Len(runs[k].images)
              /\ runs' = RemoveAt(runs, k)
              /\ ~isLoading'
              /\ error' = Null
              /\ store' = store]_vars

\* the write threw at the end of a run over two images, the second of which
\* failed: the outcomes are on display and the key, removed by the
\* selection, is still absent
C9_Witness ==
    /\ runs = <<>> /\ ~isLoading
    /\ error = Null
    /\ progress = Progress(2, 2)
    /\ Len(editedImages) = 2
    /\ EditedPresent(editedImages[1])
    /\ ErrorPresent(editedImages[2])
    /\ store = StoreAbsent

\* C10: a run started in analyze mode makes one analyze call, for the first
\* selected image and the prompt, no edit call and no store write; on
\* success the analysis is the returned text, on failure it stays absent and
\* the banner holds the failure message.
AnalyzeCallOf(run) ==
    <<RemoteCall("analyzeImageWithPrompt", run.images[1], run.prompt)>>

C10_AnalyzeRun ==
    [][/\ (HandleGenerateStart /\ mode = "analyze") =>
            /\ Len(runs') = Len(runs) + 1
            /\ runs'[Len(runs')].images = originalImages
            /\ runs'[Len(runs')].prompt = prompt
            /\ runs'[Len(runs')].calls = AnalyzeCallOf(runs'[Len(runs')])
            /\ store' = store
       /\ \A k \in DOMAIN runs :
            runs[k].mode = "analyze" =>
              /\ runs[k].calls = AnalyzeCallOf(runs[k])
              /\ ~RunFinishes(k) => k \in DOMAIN runs' /\ runs'[k] = runs[k]
              /\ RunFinishes(k) => store' = store
              /\ \A api \in AnalyzeApiOutcomes :
                   AnalyzeSettles(k, api) =>
                     /\ RunFinishes(k)
                     /\ api.kind = "text" =>
                          analysisResult' = api.data /\ error' = error
                     /\ api.kind = "throw" =>
                          analysisResult' = Null /\ error' = AnalyzeCommError]_vars

\* an analyze call has failed and the banner shows its message
C10_Witness ==
    /\ runs = <<>> /\ ~isLoading
    /\ mode = "analyze"
    /\ progress = Progress(0, 1)
    /\ error = AnalyzeCommError
    /\ analysisResult = Null

\* C11: at most one remote call is in flight: a second run cannot start
\* while one is running, and within a run the call for image i + 1 is made
\* only when the calls for images 1..i have settled, in input order.
CallsOf(run) ==
    [j \in 1..run.i |-> RemoteCall(RemoteOp(run.mode), run.images[j], run.prompt)]

C11_OneCallInFlight ==
    /\ Len(runs) <= 1
    /\ isLoading <=> Len(runs) = 1
    /\ \A k \in DOMAIN runs :
         /\ runs[k].i \in DOMAIN runs[k].images
         /\ Len(runs[k].results) = runs[k].i - 1
         /\ runs[k].calls = CallsOf(runs[k])
         /\ runs[k].mode = "analyze" => runs[k].i = 1

\* the second call of an edit run is in flight after the user has switched
\* the mode and selected another image
C11_Witness ==
    /\ Len(runs) = 1
    /\ runs[1].mode = "edit"
    /\ runs[1].i = 2
    /\ mode = "analyze"
    /\ Len(originalImages) = 1
    /\ originalImages[1] # runs[1].images[2]

\* Every remote call eventually settles: the promise handed to `await` in
\* handleGenerate is resolved or rejected, and the continuation then runs.
FairSpec ==
    /\ Spec
    /\ WF_vars(\E k \in DOMAIN runs, api \in EditApiOutcomes, quotaOk \in BOOLEAN :
                  EditSettles(k, api, quotaOk))
    /\ WF_vars(\E k \in DOMAIN runs, api \in AnalyzeApiOutcomes :
                  AnalyzeSettles(k, api))

\* C12: every run that enters the running state eventually leaves it,
\* whatever the calls return, whether or not the storage write throws, and
\* whatever the user does during the run.
C12_RunTerminates == isLoading ~> ~isLoading

\* an edit run of two images has finished after the user switched to analyze
\* during the run, and its snapshot was not stored
C12_Witness ==
    /\ ~isLoading
    /\ runs = <<>>
    /\ mode = "analyze"
    /\ Len(editedImages) = 2
    /\ store = StoreAbsent

\* C13: in every reachable state where the mode is analyze the selection
\* holds at most one image, also when the encoding of files picked in edit
\* mode completes after a switch to analyze.
C13_AnalyzeHoldsAtMostOne == mode = "analyze" => Len(originalImages) <= 1

\* C14: immediately after remove-image and after clear-images the edit
\* outcomes are empty, the analysis outcome is absent and no error banner
\* is active.
C14_RemoveAndClearReset ==
    [][(RemoveStep \/ HandleClearImages) =>
          /\ editedImages' = <<>>
          /\ analysisResult' = Null
          /\ error' = Null]_vars

\* C15: in every reachable state the analysis outcome is present only if
\* the mode is analyze, and the edit outcomes are non-empty only if the mode
\* is edit, also when a call settles after a switch of the mode.
C15_OutcomesMatchMode ==
    /\ analysisResult # Null => mode = "analyze"
    /\ editedImages # <<>> => mode = "edit"

====
